---- MODULE Spec2Model ----
(***************************************************************************)
(* A model of h5sh: a shell over an HDF5 file.                             *)
(*                                                                         *)
(* A string is a sequence of one-character strings, so that the path       *)
(* arithmetic of FileState.abspath (startswith, endswith, os.path.join,    *)
(* os.path.abspath, basename, rstrip) is computed character by character.  *)
(* The file is a tree: a function from link paths (sequences of link       *)
(* names) to nodes. A handle on a group (state.group, state.last_group)    *)
(* is the link path of the object it was opened at, or unlinked once that  *)
(* link or one above it has been deleted: h5py then gives it the name None.*)
(***************************************************************************)
EXTENDS Integers, Sequences, FiniteSets, TLC

VARIABLES f, group, last_group, mode, threshold, line, out, status, pre

vars == <<f, group, last_group, mode, threshold, line, out, status, pre>>

(***************************************************************************)
(* Bounds of the model.                                                    *)
(***************************************************************************)
\* The most links (groups and datasets, the root aside) a file holds.
MaxNodes == 3

(***************************************************************************)
(* Strings.                                                                *)
(***************************************************************************)
SLASH == <<"/">>

startswith(s, c) == Len(s) > 0 /\ s[1] = c

endswith(s, c) == Len(s) > 0 /\ s[Len(s)] = c

\* str.split('/'): the pieces between the separators, empty ones kept.
RECURSIVE splitFrom(_, _, _)
splitFrom(s, i, cur) ==
    IF i > Len(s) THEN <<cur>>
    ELSE IF s[i] = "/" THEN <<cur>> \o splitFrom(s, i + 1, <<>>)
    ELSE splitFrom(s, i + 1, Append(cur, s[i]))

split(s) == splitFrom(s, 1, <<>>)

\* '/'.join(comps)
RECURSIVE join(_)
join(comps) ==
    IF comps = <<>> THEN <<>>
    ELSE IF Len(comps) = 1 THEN comps[1]
    ELSE comps[1] \o SLASH \o join(Tail(comps))

\* str.rstrip('/')
RECURSIVE rstrip(_)
rstrip(s) ==
    IF endswith(s, "/") THEN rstrip(SubSeq(s, 1, Len(s) - 1)) ELSE s

\* The index of the last '/' of s, 0 when it has none.
RECURSIVE rfind(_, _)
rfind(s, i) == IF i = 0 THEN 0 ELSE IF s[i] = "/" THEN i ELSE rfind(s, i - 1)

\* posixpath.basename: what follows the last '/'.
basename(s) == SubSeq(s, rfind(s, Len(s)) + 1, Len(s))

\* posixpath.dirname: what precedes the last '/', its trailing slashes
\* stripped unless it is made of slashes only.
dirname(s) ==
    LET head == SubSeq(s, 1, rfind(s, Len(s)))
    IN  IF head # <<>> /\ rstrip(head) # <<>> THEN rstrip(head) ELSE head

\* posixpath.join(a, b) for one b.
pathjoin(a, b) ==
    IF startswith(b, "/") THEN b
    ELSE IF a = <<>> \/ endswith(a, "/") THEN a \o b
    ELSE a \o SLASH \o b

\* The loop of posixpath.normpath over the components.
RECURSIVE normComps(_, _, _)
normComps(comps, acc, initial) ==
    IF comps = <<>> THEN acc
    ELSE LET comp == Head(comps)
             rest == Tail(comps)
         IN  IF comp = <<>> \/ comp = <<".">> THEN normComps(rest, acc, initial)
             ELSE IF comp # <<".", ".">>
                     \/ (initial = 0 /\ acc = <<>>)
                     \/ (acc # <<>> /\ acc[Len(acc)] = <<".", ".">>)
                  THEN normComps(rest, Append(acc, comp), initial)
             ELSE IF acc # <<>>
                  THEN normComps(rest, SubSeq(acc, 1, Len(acc) - 1), initial)
             ELSE normComps(rest, acc, initial)

RECURSIVE slashes(_)
slashes(n) == IF n = 0 THEN <<>> ELSE SLASH \o slashes(n - 1)

\* normpath that pops '..' as in a relative path: at the root it is kept.
normpath_KeepsDotDotAtRoot(path) ==
    IF path = <<>> THEN <<".">>
    ELSE LET initial ==
                 IF ~startswith(path, "/") THEN 0
                 ELSE IF Len(path) >= 2 /\ path[2] = "/"
                         /\ ~(Len(path) >= 3 /\ path[3] = "/")
                      THEN 2
                 ELSE 1
             res == slashes(initial) \o join(normComps(split(path), <<>>, 0))
         IN  IF res = <<>> THEN <<".">> ELSE res

\* posixpath.normpath
normpath(path) ==
    IF path = <<>> THEN <<".">>
    ELSE LET initial ==
                 IF ~startswith(path, "/") THEN 0
                 ELSE IF Len(path) >= 2 /\ path[2] = "/"
                         /\ ~(Len(path) >= 3 /\ path[3] = "/")
                      THEN 2
                 ELSE 1
             res == slashes(initial) \o join(normComps(split(path), <<>>, initial))
         IN  IF res = <<>> THEN <<".">> ELSE res

\* ' '.join(args)
RECURSIVE joinSpace(_)
joinSpace(args) ==
    IF args = <<>> THEN <<>>
    ELSE IF Len(args) = 1 THEN args[1]
    ELSE args[1] \o <<" ">> \o joinSpace(Tail(args))

(***************************************************************************)
(* The HDF5 file: state.f. Link paths are sequences of link names; the     *)
(* root group is the empty link path and is always there.                  *)
(***************************************************************************)
Root == <<>>

GroupNode == [kind |-> "group", data |-> 0]

DatasetNode(d) == [kind |-> "dataset", data |-> d]

IsPrefix(p, q) == Len(p) <= Len(q) /\ SubSeq(q, 1, Len(p)) = p

\* The link path HDF5 walks for a path string: duplicate and trailing
\* slashes are ignored and '.' stays in the present group.
links(path) == SelectSeq(split(path), LAMBDA c : c # <<>> /\ c # <<".">>)

\* The walk of `path in state.f` over the parts of the path.
RECURSIVE pathValidFrom(_, _, _, _)
pathValidFrom(t, parts, idx, loc) ==
    IF idx > Len(parts) THEN TRUE
    ELSE IF parts[idx] = <<".">> THEN pathValidFrom(t, parts, idx + 1, loc)
    ELSE IF Append(loc, parts[idx]) \notin DOMAIN t THEN FALSE
    ELSE IF idx = Len(parts) THEN TRUE
    ELSE IF t[Append(loc, parts[idx])].kind # "group" THEN FALSE
    ELSE pathValidFrom(t, parts, idx + 1, Append(loc, parts[idx]))

\* `path in state.f`
contains(t, path) ==
    /\ path # <<>>
    /\ LET parts == SelectSeq(split(path), LAMBDA c : c # <<>>)
       IN  pathValidFrom(t, IF parts = <<>> THEN << <<".">> >> ELSE parts, 1, Root)

\* `state.f[path]`, for a path in the file.
getitem(t, path) == t[links(path)]

\* isinstance(state.f[path], h5py.Group) and isinstance(.., h5py.Dataset)
isGroup(t, path) == getitem(t, path).kind = "group"

isDataset(t, path) == getitem(t, path).kind = "dataset"

\* The proper prefixes of a link path: the groups HDF5 walks through.
Above(lp) == {SubSeq(lp, 1, n) : n \in 0..(Len(lp) - 1)}

\* Whether the walk to the parent of lp meets a dataset where it needs a group.
blocked(t, lp) == \E q \in Above(lp) : q \in DOMAIN t /\ t[q].kind # "group"

\* The groups HDF5 creates on the way to lp (create_intermediate_group).
withParents(t, lp) ==
    [q \in DOMAIN t \cup Above(lp) |-> IF q \in DOMAIN t THEN t[q] ELSE GroupNode]

\* `del state.f[path]`: the link and all below it go. Deleting the root fails.
unlink_raises(t, path) == links(path) = Root \/ links(path) \notin DOMAIN t

unlink(t, path) ==
    [q \in {r \in DOMAIN t : ~IsPrefix(links(path), r)} |-> t[q]]

\* `state.f.create_group(path)`
create_group_raises(t, path) ==
    links(path) \in DOMAIN t \/ blocked(t, links(path))

create_group(t, path) ==
    LET lp == links(path)
        u  == withParents(t, lp)
    IN  [q \in DOMAIN u \cup {lp} |-> IF q = lp THEN GroupNode ELSE u[q]]

\* `state.f.copy(source, dest)`: a deep copy of what source names, linked at
\* dest once the copy is made. It fails when source is not there, when dest
\* is, or when dest lies under a dataset.
copy_raises(t, source, dest) ==
    \/ links(source) \notin DOMAIN t
    \/ blocked(t, links(source))
    \/ links(dest) \in DOMAIN t
    \/ blocked(t, links(dest))

copy(t, source, dest) ==
    LET sp   == links(source)
        dp   == links(dest)
        u    == withParents(t, dp)
        sub  == {q \in DOMAIN t : IsPrefix(sp, q)}
        new  == {dp \o SubSeq(q, Len(sp) + 1, Len(q)) : q \in sub}
        from(n) == sp \o SubSeq(n, Len(dp) + 1, Len(n))
    IN  [q \in DOMAIN u \cup new |-> IF q \in new THEN t[from(q)] ELSE u[q]]

\* The number of links of the file.
Size(t) == Cardinality(DOMAIN t) - 1

(***************************************************************************)
(* Handles: state.group and state.last_group.                              *)
(***************************************************************************)
Handle(lp) == [linked |-> TRUE, at |-> lp]

Unlinked == [linked |-> FALSE, at |-> Root]

\* A handle after the link at lp was deleted.
afterUnlink(h, lp) == IF h.linked /\ IsPrefix(lp, h.at) THEN Unlinked ELSE h

\* group.name: None for an object no link leads to any more.
NONE == <<"N", "o", "n", "e">>

name(h) ==
    IF ~h.linked THEN NONE
    ELSE IF h.at = Root THEN SLASH
    ELSE SLASH \o join(h.at)

(***************************************************************************)
(* FileState.abspath                                                       *)
(***************************************************************************)
\* os.path.join(None, path) raises TypeError.
abspath_raises(g, path) == ~startswith(path, "/") /\ ~g.linked

\* abspath with the test of the trailing '/' left out.
abspath_AppendsAlways(t, g, path) ==
    LET abs == IF startswith(path, "/") THEN path
               ELSE normpath(pathjoin(name(g), path))
    IN  IF contains(t, abs) /\ isGroup(t, abs)
        THEN abs \o SLASH
        ELSE abs

abspath(t, g, path) ==
    LET abs == IF startswith(path, "/") THEN path
               ELSE normpath(pathjoin(name(g), path))
    IN  IF contains(t, abs) /\ isGroup(t, abs) /\ ~endswith(abs, "/")
        THEN abs \o SLASH
        ELSE abs

(***************************************************************************)
(* The command handlers. Each takes the argument list and the file state   *)
(* s = [f, group, last_group, threshold] and gives the file state it       *)
(* leaves, the lines it printed and whether it raised an exception, which  *)
(* nothing catches (main calls func(args, state) outside any try).         *)
(***************************************************************************)
\* numpy's print threshold, as text: the default the program sets it back
\* to, and np.nan.
DefaultThreshold == "1000"

NaN == "nan"

Diag(verb, arg, msg) == [verb |-> verb, arg |-> arg, msg |-> msg]

Returned(s, o) == [s |-> s, out |-> o, raised |-> FALSE]

Raised(s, o) == [s |-> s, out |-> o, raised |-> TRUE]

\* del state.f[path], with the handles of the session it leaves dangling.
delete(s, path) ==
    [s EXCEPT !.f = unlink(s.f, path),
              !.group = afterUnlink(s.group, links(path)),
              !.last_group = afterUnlink(s.last_group, links(path))]

HELP_MESSAGES ==
    {"attrs", "cat", "cd", "cp", "exit", "help", "ls", "mkdir", "mv", "pwd", "rm"}

help(args, s) ==
    IF args = <<>> THEN Returned(s, <<Diag("help", <<>>, "Commands")>>)
    ELSE IF args[1] \notin HELP_MESSAGES
         THEN Raised(s, <<Diag("help", args[1], "is not a valid command")>>)
    ELSE Returned(s, <<Diag("help", args[1], "description")>>)

attrs(args, s) ==
    IF args = <<>> THEN help(<<"attrs">>, s)
    ELSE IF abspath_raises(s.group, args[1]) THEN Raised(s, <<>>)
    ELSE LET path == abspath(s.f, s.group, args[1])
         IN  IF contains(s.f, path)
             THEN Returned(s, <<Diag("attrs", path, "print")>>)
             ELSE Returned(s, <<Diag("attrs", path, "No such object")>>)

\* cat without the reset of the threshold at its end.
cat_NoReset(args, s, nanAccepted) ==
    IF args = <<>> THEN help(<<"cat">>, s)
    ELSE LET force   == \E i \in 1..(Len(args) - 1) : args[i] = <<"-", "f">>
             s1      == IF force THEN [s EXCEPT !.threshold = NaN] ELSE s
             lastarg == args[Len(args)]
         IN  IF force /\ ~nanAccepted THEN Raised(s, <<>>)
             ELSE IF abspath_raises(s1.group, lastarg) THEN Raised(s1, <<>>)
             ELSE LET path == abspath(s1.f, s1.group, lastarg)
                  IN  IF contains(s1.f, path)
                      THEN IF isDataset(s1.f, path)
                           THEN Returned(s1, <<Diag("cat", getitem(s1.f, path).data, "print")>>)
                           ELSE Returned(s1, <<Diag("cat", lastarg, "Not a dataset")>>)
                      ELSE Returned(s1, <<Diag("cat", lastarg, "No such dataset")>>)

\* nanAccepted is the numpy of the installation (setup.py asks for any):
\* older ones take threshold=np.nan, newer ones raise ValueError on it.
cat(args, s, nanAccepted) ==
    IF args = <<>> THEN help(<<"cat">>, s)
    ELSE LET force   == \E i \in 1..(Len(args) - 1) : args[i] = <<"-", "f">>
             s1      == IF force THEN [s EXCEPT !.threshold = NaN] ELSE s
             s2      == IF force THEN [s1 EXCEPT !.threshold = DefaultThreshold] ELSE s1
             lastarg == args[Len(args)]
         IN  IF force /\ ~nanAccepted THEN Raised(s, <<>>)
             ELSE IF abspath_raises(s1.group, lastarg) THEN Raised(s1, <<>>)
             ELSE LET path == abspath(s1.f, s1.group, lastarg)
                  IN  IF contains(s1.f, path)
                      THEN IF isDataset(s1.f, path)
                           THEN Returned(s2, <<Diag("cat", getitem(s1.f, path).data, "print")>>)
                           ELSE Returned(s2, <<Diag("cat", lastarg, "Not a dataset")>>)
                      ELSE Returned(s2, <<Diag("cat", lastarg, "No such dataset")>>)

\* cd whose '-' goes to the previous group without keeping the current one.
cd_DashForgets(args, s) ==
    LET arg == joinSpace(args)
    IN  IF arg = <<"-">>
        THEN Returned([s EXCEPT !.group = s.last_group], <<>>)
        ELSE IF abspath_raises(s.group, arg) THEN Raised(s, <<>>)
        ELSE LET path == abspath(s.f, s.group, arg)
             IN  IF contains(s.f, path)
                 THEN IF isGroup(s.f, path)
                      THEN Returned([s EXCEPT !.last_group = s.group,
                                              !.group = Handle(links(path))], <<>>)
                      ELSE Returned(s, <<Diag("cd", arg, "Not a group")>>)
                 ELSE Returned(s, <<Diag("cd", arg, "No such group")>>)

\* cd that keeps the current group as the previous one before it has looked
\* at what the path names.
cd_SavesFirst(args, s) ==
    LET arg == joinSpace(args)
        s0  == [s EXCEPT !.last_group = s.group]
    IN  IF arg = <<"-">>
        THEN Returned([s EXCEPT !.last_group = s.group, !.group = s.last_group], <<>>)
        ELSE IF abspath_raises(s.group, arg) THEN Raised(s, <<>>)
        ELSE LET path == abspath(s.f, s.group, arg)
             IN  IF contains(s.f, path)
                 THEN IF isGroup(s.f, path)
                      THEN Returned([s0 EXCEPT !.group = Handle(links(path))], <<>>)
                      ELSE Returned(s0, <<Diag("cd", arg, "Not a group")>>)
                 ELSE Returned(s0, <<Diag("cd", arg, "No such group")>>)

cd(args, s) ==
    LET arg == joinSpace(args)
    IN  IF arg = <<"-">>
        THEN Returned([s EXCEPT !.last_group = s.group, !.group = s.last_group], <<>>)
        ELSE IF abspath_raises(s.group, arg) THEN Raised(s, <<>>)
        ELSE LET path == abspath(s.f, s.group, arg)
             IN  IF contains(s.f, path)
                 THEN IF isGroup(s.f, path)
                      THEN Returned([s EXCEPT !.last_group = s.group,
                                              !.group = Handle(links(path))], <<>>)
                      ELSE Returned(s, <<Diag("cd", arg, "Not a group")>>)
                 ELSE Returned(s, <<Diag("cd", arg, "No such group")>>)

\* The loop of cp (remove = FALSE) and of mv (remove = TRUE) over the
\* sources left; each source is resolved when its turn comes.
RECURSIVE transfer(_, _, _, _, _, _, _)
transfer(verb, remove, sources, dest, first, s, o) ==
    IF sources = <<>> THEN Returned(s, o)
    ELSE IF abspath_raises(s.group, Head(sources)) THEN Raised(s, o)
    ELSE LET source == abspath(s.f, s.group, Head(sources))
         IN  IF ~contains(s.f, source)
             THEN transfer(verb, remove, Tail(sources), dest, first, s,
                           Append(o, Diag(verb, first, "No such group or dataset")))
             ELSE LET final_dest ==
                          IF contains(s.f, dest) /\ isGroup(s.f, dest)
                          THEN dest \o basename(rstrip(source))
                          ELSE dest
                      exists == contains(s.f, final_dest)
                      s1 == IF exists THEN delete(s, final_dest) ELSE s
                  IN  IF exists /\ unlink_raises(s.f, final_dest) THEN Raised(s, o)
                      ELSE IF copy_raises(s1.f, source, final_dest) THEN Raised(s1, o)
                      ELSE LET s2 == [s1 EXCEPT !.f = copy(s1.f, source, final_dest)]
                           IN  IF ~remove
                               THEN transfer(verb, remove, Tail(sources), dest, first, s2, o)
                               ELSE IF unlink_raises(s2.f, source) THEN Raised(s2, o)
                               ELSE transfer(verb, remove, Tail(sources), dest, first,
                                             delete(s2, source), o)

\* The check of the target made for four arguments or more only.
transferAll_LateTargetCheck(verb, remove, args, s) ==
    IF abspath_raises(s.group, args[Len(args)]) THEN Raised(s, <<>>)
    ELSE LET dest == abspath(s.f, s.group, args[Len(args)])
         IN  IF ((contains(s.f, dest) /\ isDataset(s.f, dest)) \/ ~contains(s.f, dest))
                /\ Len(args) > 3
             THEN Returned(s, <<Diag(verb, args[Len(args)], "is not a group")>>)
             ELSE transfer(verb, remove, SubSeq(args, 1, Len(args) - 1), dest,
                           args[1], s, <<>>)

\* What cp and mv share after the check of the number of arguments.
transferAll(verb, remove, args, s) ==
    IF abspath_raises(s.group, args[Len(args)]) THEN Raised(s, <<>>)
    ELSE LET dest == abspath(s.f, s.group, args[Len(args)])
         IN  IF ((contains(s.f, dest) /\ isDataset(s.f, dest)) \/ ~contains(s.f, dest))
                /\ Len(args) > 2
             THEN Returned(s, <<Diag(verb, args[Len(args)], "is not a group")>>)
             ELSE transfer(verb, remove, SubSeq(args, 1, Len(args) - 1), dest,
                           args[1], s, <<>>)

cp(args, s, m) ==
    IF m # "r+"
    THEN Returned(s, <<Diag("cp", <<>>, "HDF5 file is not open in read/write mode")>>)
    ELSE IF Len(args) < 2
    THEN Returned(s, <<Diag("cp", args, "missing destination operand")>>)
    ELSE transferAll("cp", FALSE, args, s)

\* mv that counts its arguments before it looks at the mode of the file.
mv_CountsFirst(args, s, m) ==
    IF Len(args) < 2
    THEN IF args = <<>> THEN Raised(s, <<>>)
         ELSE Returned(s, <<Diag("mv", args[1], "missing destination operand")>>)
    ELSE IF m # "r+"
    THEN Returned(s, <<Diag("mv", <<>>, "HDF5 file is not open in read/write mode")>>)
    ELSE transferAll("mv", TRUE, args, s)

mv(args, s, m) ==
    IF m # "r+"
    THEN Returned(s, <<Diag("mv", <<>>, "HDF5 file is not open in read/write mode")>>)
    ELSE IF Len(args) < 2
    THEN IF args = <<>> THEN Raised(s, <<>>)
         ELSE Returned(s, <<Diag("mv", args[1], "missing destination operand")>>)
    ELSE transferAll("mv", TRUE, args, s)

\* The listing of ls: the entries of the group, as (kind, name) pairs.
\* The code points of the characters of the names and of the markup.
ord ==
    ("." :> 46) @@ ("/" :> 47) @@ ("<" :> 60) @@ (">" :> 62) @@ ("a" :> 97)
        @@ ("b" :> 98) @@ ("e" :> 101) @@ ("g" :> 103) @@ ("h" :> 104)
        @@ ("i" :> 105) @@ ("l" :> 108) @@ ("n" :> 110) @@ ("r" :> 114)
        @@ ("s" :> 115) @@ ("t" :> 116) @@ ("u" :> 117)

\* x < y on Python strings: code point by code point, a prefix first.
RECURSIVE strLess(_, _)
strLess(x, y) ==
    IF y = <<>> THEN FALSE
    ELSE IF x = <<>> THEN TRUE
    ELSE IF x[1] = y[1] THEN strLess(Tail(x), Tail(y))
    ELSE ord[x[1]] < ord[y[1]]

\* '<b><ansibrightblue>' and '</ansibrightblue></b>'
MarkupOpen ==
    <<"<", "b", ">", "<", "a", "n", "s", "i", "b", "r", "i", "g", "h", "t",
      "b", "l", "u", "e", ">">>

MarkupClose ==
    <<"<", "/", "a", "n", "s", "i", "b", "r", "i", "g", "h", "t", "b", "l",
      "u", "e", ">", "<", "/", "b", ">">>

\* directory(s) in ls: the name of a group in its markup.
directory(s) == MarkupOpen \o s \o MarkupClose

\* sorted(vals, key=lambda x: x[2]): the third fields of the vals of one
\* listing differ, so each step takes the one val with the least.
RECURSIVE sortedByName(_)
sortedByName(vals) ==
    IF vals = {} THEN <<>>
    ELSE LET least == CHOOSE v \in vals :
                          \A w \in vals : ~strLess(w.name, v.name)
         IN  <<least>> \o sortedByName(vals \ {least})

\* The vals of ls for the group at link path lp: '.' and '..', and a tuple
\* (dtype, size, name) for each node of the group, the size left out.
lsVals(t, lp) ==
    { [dtype |-> "group", name |-> directory(<<".">>)],
      [dtype |-> "group", name |-> directory(<<".", ".">>)] }
        \cup { [dtype |-> t[q].kind,
                name  |-> IF t[q].kind = "group" THEN directory(q[Len(q)])
                          ELSE q[Len(q)]] :
                  q \in {r \in DOMAIN t : Len(r) = Len(lp) + 1 /\ IsPrefix(lp, r)} }

ls(args, s) ==
    LET arg == joinSpace(args)
    IN  IF abspath_raises(s.group, arg) THEN Raised(s, <<>>)
        ELSE LET path == abspath(s.f, s.group, arg)
             IN  IF ~contains(s.f, path) THEN Raised(s, <<>>)
                 ELSE IF ~isGroup(s.f, path)
                 THEN Returned(s, <<Diag("ls", arg, "is not a group")>>)
                 ELSE Returned(s, <<Diag("ls", sortedByName(lsVals(s.f, links(path))),
                                         "print")>>)

\* The loop of mkdir leaving at the first path that exists.
RECURSIVE mkdirLoop_StopsAtExisting(_, _, _)
mkdirLoop_StopsAtExisting(args, s, o) ==
    IF args = <<>> THEN Returned(s, o)
    ELSE IF abspath_raises(s.group, Head(args)) THEN Raised(s, o)
    ELSE LET path == abspath(s.f, s.group, Head(args))
         IN  IF contains(s.f, path)
             THEN Returned(s, Append(o, Diag("mkdir", Head(args), "Groups exists")))
             ELSE IF create_group_raises(s.f, path) THEN Raised(s, o)
             ELSE mkdirLoop_StopsAtExisting(Tail(args),
                                            [s EXCEPT !.f = create_group(s.f, path)], o)

RECURSIVE mkdirLoop(_, _, _)
mkdirLoop(args, s, o) ==
    IF args = <<>> THEN Returned(s, o)
    ELSE IF abspath_raises(s.group, Head(args)) THEN Raised(s, o)
    ELSE LET path == abspath(s.f, s.group, Head(args))
         IN  IF contains(s.f, path)
             THEN mkdirLoop(Tail(args), s,
                            Append(o, Diag("mkdir", Head(args), "Groups exists")))
             ELSE IF create_group_raises(s.f, path) THEN Raised(s, o)
             ELSE mkdirLoop(Tail(args), [s EXCEPT !.f = create_group(s.f, path)], o)

mkdir(args, s, m) ==
    IF m # "r+"
    THEN Returned(s, <<Diag("mkdir", <<>>, "HDF5 file is not open in read/write mode")>>)
    ELSE mkdirLoop(args, s, <<>>)

pwd(args, s) == Returned(s, <<Diag("pwd", name(s.group), "print")>>)

RECURSIVE rmLoop(_, _, _)
rmLoop(args, s, o) ==
    IF args = <<>> THEN Returned(s, o)
    ELSE IF abspath_raises(s.group, Head(args)) THEN Raised(s, o)
    ELSE LET path == abspath(s.f, s.group, Head(args))
         IN  IF ~contains(s.f, path)
             THEN rmLoop(Tail(args), s,
                         Append(o, Diag("rm", Head(args), "No such group or dataset")))
             ELSE IF unlink_raises(s.f, path) THEN Raised(s, o)
             ELSE rmLoop(Tail(args), delete(s, path), o)

rm(args, s, m) ==
    IF m # "r+"
    THEN Returned(s, <<Diag("rm", <<>>, "HDF5 file is not open in read/write mode")>>)
    ELSE rmLoop(args, s, <<>>)

(***************************************************************************)
(* Completion: completions and CommandCompleter.get_completions. Both give *)
(* the strings they yield and whether an exception ended them.             *)
(***************************************************************************)
Yielded(items) == [items |-> items, raised |-> FALSE]

Failed == [items |-> {}, raised |-> TRUE]

\* str.replace('//', '/'): from the left, what was replaced is not read again.
RECURSIVE replaceSlashes(_)
replaceSlashes(s) ==
    IF Len(s) < 2 THEN s
    ELSE IF s[1] = "/" /\ s[2] = "/"
         THEN SLASH \o replaceSlashes(SubSeq(s, 3, Len(s)))
    ELSE <<s[1]>> \o replaceSlashes(Tail(s))

\* The nodes of state.f[dirname].values(): the link paths just under lp.
values(t, lp) == {q \in DOMAIN t : Len(q) = Len(lp) + 1 /\ IsPrefix(lp, q)}

\* completions(state, path, nodetype); nodetype is "group", "dataset" or,
\* for None, "any". state.f[dirname] raises KeyError for a path that is not
\* in the file, and a dataset has no values().
completions(t, g, path0, nodetype) ==
    IF abspath_raises(g, path0) THEN Failed
    ELSE LET abs    == abspath(t, g, path0)
             path   == IF endswith(abs, "/") /\ ~endswith(path0, "/") /\ path0 # <<>>
                       THEN path0 \o SLASH
                       ELSE path0
             dir    == dirname(abs)
             base   == basename(abs)
             prefix == dirname(path)
             suffix(q) == IF t[q].kind = "group" THEN SLASH ELSE <<>>
         IN  IF ~contains(t, dir) \/ ~isGroup(t, dir) THEN Failed
             ELSE Yielded(
                      { IF prefix # <<>>
                        THEN replaceSlashes(prefix \o SLASH \o q[Len(q)] \o suffix(q))
                        ELSE q[Len(q)] \o suffix(q) :
                          q \in {r \in values(t, links(dir)) :
                                    /\ nodetype = "any" \/ t[r].kind = nodetype
                                    /\ IsPrefix(base, r[Len(r)])} })

\* The verbs as the completer reads them, character by character.
ATTRS == <<"a", "t", "t", "r", "s">>
CAT == <<"c", "a", "t">>
CD == <<"c", "d">>
CP == <<"c", "p">>
EXIT == <<"e", "x", "i", "t">>
HELP == <<"h", "e", "l", "p">>
LS == <<"l", "s">>
MKDIR == <<"m", "k", "d", "i", "r">>
MV == <<"m", "v">>
PWD == <<"p", "w", "d">>
RM == <<"r", "m">>

COMMANDS == {ATTRS, CAT, CD, CP, EXIT, HELP, LS, MKDIR, MV, PWD, RM}

\* get_completions without the test of ls: only cd completes to groups.
get_completions_LsUnfiltered(t, g, words, word) ==
    IF Len(words) = 0 THEN Yielded({})
    ELSE IF Len(words) = 1 /\ word # <<>>
         THEN Yielded({cmd \in COMMANDS : IsPrefix(word, cmd)})
    ELSE IF words[1] \in {CD} THEN completions(t, g, word, "group")
    ELSE IF words[1] \in {EXIT, HELP, PWD} THEN Yielded({})
    ELSE completions(t, g, word, "any")

\* CommandCompleter.get_completions for the words of document.text and the
\* word under the cursor.
get_completions(t, g, words, word) ==
    IF Len(words) = 0 THEN Yielded({})
    ELSE IF Len(words) = 1 /\ word # <<>>
         THEN Yielded({cmd \in COMMANDS : IsPrefix(word, cmd)})
    ELSE IF words[1] \in {CD, LS} THEN completions(t, g, word, "group")
    ELSE IF words[1] \in {EXIT, HELP, PWD} THEN Yielded({})
    ELSE completions(t, g, word, "any")

(***************************************************************************)
(* The interpreter loop of main: a prompt, one line, one handler.          *)
(***************************************************************************)
\* The functions of the module commands.
Handlers == {"attrs", "cat", "cd", "cp", "help", "ls", "mkdir", "mv", "pwd", "rm"}

\* Names the module commands has that are no functions: the modules it
\* imports and its tables. Calling one raises TypeError.
NotCallable == {"os", "h5py", "np", "COMMANDS", "_HELP_MESSAGES"}

\* The aliases read from ~/.h5rc.
alias_table == ("q" :> "foo")

\* alias_table.get(cmd, cmd)
aliasOf(cmd) == IF cmd \in DOMAIN alias_table THEN alias_table[cmd] ELSE cmd

\* getattr(commands, cmd) and the call of what it gives, for a word that
\* names no handler: AttributeError is caught, nothing else.
notHandler(cmd, s) ==
    IF cmd \in NotCallable THEN Raised(s, <<>>)
    ELSE Returned(s, <<Diag(cmd, <<>>, "command not found")>>)

\* The file state the handlers work on.
Cur == [f |-> f, group |-> group, last_group |-> last_group, threshold |-> threshold]

NoLine == [verb |-> "", args |-> <<>>]

\* The link names and dataset values of the files of the model.
A == <<"a">>
B == <<"b">>

\* Files the shell is started on.
InitFiles ==
    { (Root :> GroupNode),
      (Root :> GroupNode) @@ (<<A>> :> GroupNode) @@ (<<A, B>> :> DatasetNode(1))
          @@ (<<B>> :> DatasetNode(2)),
      (Root :> GroupNode) @@ (<<A>> :> GroupNode) @@ (<<B>> :> GroupNode)
          @@ (<<B, A>> :> GroupNode),
      (Root :> GroupNode) @@ (<<A>> :> DatasetNode(1)) @@ (<<B>> :> GroupNode)
          @@ (<<B, A>> :> DatasetNode(2)) }

\* Path arguments typed at the prompt.
Paths ==
    { <<>>, <<".">>, <<".", ".">>, <<"/">>, <<"a">>, <<"b">>, <<"/", "a">>,
      <<"/", "b">>, <<"/", "a", "/">>, <<"/", "a", "/", "b">>, <<"/", "b", "/", "a">>,
      <<"b", "/", "a">>, <<".", ".", "/", "a">> }

ReadPaths == { <<"a">>, <<"/", "b">>, <<"/", "a", "/", "b">>, <<".", ".">> }

\* Arguments of the commands that write: no '.' or '..' inside an absolute path.
Sources ==
    { <<"a">>, <<"/", "b">>, <<"/", "a", "/", "b">>, <<".", ".">>,
      <<".", ".", "/", ".", ".", "/", "a">> }

Dests == { <<"a">>, <<"/", "a">>, <<"/", "b">>, <<".", ".">> }

NewPaths == { <<".">>, <<"a">>, <<"/", "b">>, <<"/", "a", "/", "b">>, <<"b", "/", "a">> }

OldPaths == { <<".">>, <<".", ".">>, <<"/">>, <<"a">>, <<"/", "a">>, <<"/", "b">> }

ManySources == { <<"a">>, <<"/", "b">>, <<"/", "a", "/", "b">> }

OneOrNone(S) == {<<>>} \cup {<<p>> : p \in S}

TwoArgs ==
    OneOrNone(Sources)
        \cup {<<p, d>> : p \in Sources, d \in Dests \cup {<<"/", "a", "/", "b">>}}

ManyArgs == {<<p, q, d>> : p \in ManySources, q \in ManySources, d \in Dests \cup {<<"/">>}}

CatArgs == OneOrNone(ReadPaths) \cup {<<<<"-", "f">>, p>> : p \in ReadPaths}

HelpArgs == {<<>>, <<"cd">>, <<"foo">>}

Init ==
    /\ f \in InitFiles
    /\ group = Handle(Root)
    /\ last_group = Handle(Root)
    /\ mode \in {"r", "r+"}
    /\ threshold = DefaultThreshold
    /\ line = NoLine
    /\ out = <<>>
    /\ status = "prompt"
    /\ pre = Cur

\* One line read at the prompt and its handler run to its end: r is what the
\* handler gives on the present file state.
Run(verb, args, r) ==
    /\ status = "prompt"
    /\ Size(r.s.f) <= MaxNodes
    /\ line' = [verb |-> verb, args |-> args]
    /\ pre' = Cur
    /\ f' = r.s.f
    /\ group' = r.s.group
    /\ last_group' = r.s.last_group
    /\ threshold' = r.s.threshold
    /\ out' = r.out
    /\ status' = IF r.raised THEN "raised" ELSE "done"
    /\ UNCHANGED mode

Attrs == \E args \in OneOrNone(ReadPaths) : Run("attrs", args, attrs(args, Cur))

Cat ==
    \E args \in CatArgs, nanAccepted \in BOOLEAN :
        Run("cat", args, cat(args, Cur, nanAccepted))

Cd == \E args \in OneOrNone(Paths \cup {<<"-">>}) : Run("cd", args, cd(args, Cur))

Cp == \E args \in TwoArgs : Run("cp", args, cp(args, Cur, mode))

Help == \E args \in HelpArgs : Run("help", args, help(args, Cur))

\* First words that name no handler, as typed.
OtherWords == {"foo", "q", "os", "COMMANDS"}

Other == \E cmd \in OtherWords : Run(cmd, <<>>, notHandler(aliasOf(cmd), Cur))

Ls == \E args \in OneOrNone(ReadPaths) : Run("ls", args, ls(args, Cur))

Mkdir == \E args \in OneOrNone(NewPaths) : Run("mkdir", args, mkdir(args, Cur, mode))

Mv == \E args \in TwoArgs : Run("mv", args, mv(args, Cur, mode))

Pwd == Run("pwd", <<>>, pwd(<<>>, Cur))

Rm == \E args \in OneOrNone(OldPaths) : Run("rm", args, rm(args, Cur, mode))

\* The handler returned: the loop goes round to the next prompt.
Prompt ==
    /\ status = "done"
    /\ status' = "prompt"
    /\ line' = NoLine
    /\ out' = <<>>
    /\ pre' = Cur
    /\ UNCHANGED <<f, group, last_group, mode, threshold>>

\* 'exit', or the end of the input.
Exit ==
    /\ status = "prompt"
    /\ status' = "exited"
    /\ UNCHANGED <<f, group, last_group, mode, threshold, line, out, pre>>

Next ==
    \/ Pwd \/ Cd \/ Ls \/ Cat \/ Attrs \/ Help
    \/ Rm \/ Mkdir \/ Mv \/ Cp
    \/ Other
    \/ Prompt \/ Exit

Spec == Init /\ [][Next]_vars

(***************************************************************************)
(* The same loop with the forms of cp and mv that take several sources.    *)
(***************************************************************************)
CpMany == \E args \in ManyArgs : Run("cp", args, cp(args, Cur, mode))

MvMany == \E args \in ManyArgs : Run("mv", args, mv(args, Cur, mode))

NextMany == Cd \/ Mkdir \/ Rm \/ CpMany \/ MvMany \/ Prompt

SpecMany == Init /\ [][NextMany]_vars

(***************************************************************************)
(* The same loop with mkdir and rm on lists of one to three arguments.     *)
(***************************************************************************)
MkdirPaths == { <<"a">>, <<"/", "b">>, <<"/", "a", "/", "b">>, <<"b", "/", "a">> }

RmPaths == { <<".">>, <<"a">>, <<"/", "b">>, <<"/", "a", "/", "b">> }

Lists(S) ==
    {<<p>> : p \in S} \cup {<<p, q>> : p \in S, q \in S}
        \cup {<<p, q, r>> : p \in S, q \in S, r \in S}

MkdirMany == \E args \in Lists(MkdirPaths) : Run("mkdir", args, mkdir(args, Cur, mode))

RmMany == \E args \in Lists(RmPaths) : Run("rm", args, rm(args, Cur, mode))

NextLists == Cd \/ MkdirMany \/ RmMany \/ Prompt

SpecLists == Init /\ [][NextLists]_vars

(***************************************************************************)
(* FileState.abspath on its own: a file, a current group (unlinked too, as *)
(* rm leaves it) and an input string; the path is resolved, and the result *)
(* resolved once more. out holds the results.                              *)
(***************************************************************************)
ResolveInputs ==
    Paths \cup
    { <<"a", "/">>, <<"b", "/">>, <<".", "/", "a">>, <<".", ".", "/", ".", ".">>,
      <<"a", "/", "/", "b">>, <<"/", "/", "a">>, <<"/", "a", "/", "/">>,
      <<"/", "a", "/", "b", "/">>, <<"/", "b", "/">>, <<"/", "b", "/", "b", "/">>,
      <<"/", "a", "/", ".">>, <<"/", "a", "/", ".", ".">>, <<"/", "b", "/", "a", "/">>,
      <<"a", "/", ".", ".", "/", "b">>, <<".", "/", "/", ".", ".", "/", ".", ".", "/", "a">> }

GroupHandles(t) == {Handle(q) : q \in {r \in DOMAIN t : t[r].kind = "group"}}

InitResolve ==
    /\ f \in InitFiles
    /\ group \in GroupHandles(f) \cup {Unlinked}
    /\ last_group = group
    /\ mode = "r"
    /\ threshold = DefaultThreshold
    /\ line \in {[verb |-> "abspath", args |-> <<p>>] : p \in ResolveInputs}
    /\ out = <<>>
    /\ status = "prompt"
    /\ pre = Cur

Resolve ==
    /\ status = "prompt"
    /\ IF abspath_raises(group, line.args[1])
       THEN status' = "raised" /\ out' = out
       ELSE status' = "resolved" /\ out' = <<abspath(f, group, line.args[1])>>
    /\ UNCHANGED <<f, group, last_group, mode, threshold, line, pre>>

ResolveAgain ==
    /\ status = "resolved"
    /\ IF abspath_raises(group, out[1])
       THEN status' = "raised" /\ out' = out
       ELSE status' = "done" /\ out' = Append(out, abspath(f, group, out[1]))
    /\ UNCHANGED <<f, group, last_group, mode, threshold, line, pre>>

NextResolve == Resolve \/ ResolveAgain

SpecResolve == InitResolve /\ [][NextResolve]_vars

(***************************************************************************)
(* The completer on its own: a file, a current group, the words of the     *)
(* line and the word under the cursor (the last word, or nothing after a   *)
(* space); Tab is pressed once. out holds what is offered.                 *)
(***************************************************************************)
AB == <<"a", "b">>

\* The files of the loop, and one with groups a and ab side by side.
CompleteFiles ==
    InitFiles
        \cup { (Root :> GroupNode) @@ (<<A>> :> GroupNode) @@ (<<AB>> :> GroupNode)
                   @@ (<<A, B>> :> DatasetNode(1)) }

FirstWords == {CD, LS, EXIT, HELP, PWD, CAT, RM, <<"c">>}

Tokens ==
    { <<"a">>, <<"b">>, <<"/">>, <<"/", "a">>, <<"/", "a", "/">>, <<"a", "/">>,
      <<".">>, <<".", "/">>, <<".", ".", "/">>, <<"/", "/">>, <<"/", "/", "a">>,
      <<"a", "/", "b">>, <<"/", "b", "/", "a">>, <<"b", "/", "x">> }

Documents ==
    {[words |-> <<>>, word |-> <<>>]}
        \cup UNION {{[words |-> <<c>>, word |-> w] : w \in {<<>>, c}} :
                        c \in FirstWords}
        \cup UNION {{[words |-> <<c, tok>>, word |-> w] : c \in FirstWords,
                                                          w \in {<<>>, tok}} :
                        tok \in Tokens}

InitComplete ==
    /\ f \in CompleteFiles
    /\ group \in GroupHandles(f) \cup {Unlinked}
    /\ last_group = group
    /\ mode = "r"
    /\ threshold = DefaultThreshold
    /\ line \in {[verb |-> "complete", args |-> d.words, word |-> d.word] : d \in Documents}
    /\ out = <<>>
    /\ status = "prompt"
    /\ pre = Cur

Complete ==
    /\ status = "prompt"
    /\ LET r == get_completions(f, group, line.args, line.word)
       IN  /\ status' = IF r.raised THEN "raised" ELSE "done"
           /\ out' = <<r.items>>
    /\ UNCHANGED <<f, group, last_group, mode, threshold, line, pre>>

NextComplete == Complete

SpecComplete == InitComplete /\ [][NextComplete]_vars

(***************************************************************************)
(* The claims.                                                             *)
(***************************************************************************)
\* A handler has run on the line shown: line, pre and out are its.
Ran == status \in {"done", "raised"}

Dash == << <<"-">> >>

ReadOnlyDiag(verb) == <<Diag(verb, <<>>, "HDF5 file is not open in read/write mode")>>

LastArg == line.args[Len(line.args)]

\* C1: after any sequence of commands the current group of the session is a
\* group that exists in the file.
C1_CurrentGroupExists ==
    (status \in {"prompt", "done"})
        => /\ group.linked
           /\ group.at \in DOMAIN f
           /\ f[group.at].kind = "group"

\* C2: on a file opened read-only cp, mv, mkdir and rm, whatever their
\* arguments, return after printing the read/write diagnostic alone and
\* leave the file as it was: the check of the mode comes before any other.
C2_ReadOnlyRefuses ==
    (mode = "r" /\ Ran /\ line.verb \in {"cp", "mv", "mkdir", "rm"})
        => /\ status = "done"
           /\ f = pre.f
           /\ out = ReadOnlyDiag(line.verb)

\* C2 witness: mv without arguments on a read-only file, where the check of
\* the number of arguments would have read args[0].
C2_Witness ==
    /\ mode = "r" /\ status = "done"
    /\ line = [verb |-> "mv", args |-> <<>>]
    /\ out = ReadOnlyDiag("mv")

\* The last argument of the line, resolved before the handler ran, names no
\* group: nothing, or a dataset.
DestNotGroup ==
    /\ ~abspath_raises(pre.group, LastArg)
    /\ LET dest == abspath(pre.f, pre.group, LastArg)
       IN  ~(contains(pre.f, dest) /\ isGroup(pre.f, dest))

\* C3: cp and mv with three arguments or more on a writable file, when the
\* last argument names no existing group, print 'target is not a group' and
\* leave the file unchanged.
C3_TargetMustBeGroup ==
    (mode = "r+" /\ Ran /\ line.verb \in {"cp", "mv"} /\ Len(line.args) > 2
        /\ DestNotGroup)
        => /\ status = "done"
           /\ out = <<Diag(line.verb, LastArg, "is not a group")>>
           /\ f = pre.f

\* C3 witness: mv of two existing sources onto a dataset.
C3_Witness ==
    /\ mode = "r+" /\ status = "done" /\ line.verb = "mv" /\ Len(line.args) = 3
    /\ DestNotGroup
    /\ contains(pre.f, abspath(pre.f, pre.group, LastArg))
    /\ \A i \in 1..2 : /\ ~abspath_raises(pre.group, line.args[i])
                       /\ contains(pre.f, abspath(pre.f, pre.group, line.args[i]))
    /\ line.args[1] # line.args[2]

\* cp a b, then rm a when cp returned.
CpThenRm(args, s) ==
    LET c == cp(args, s, "r+")
    IN  IF c.raised THEN c ELSE rm(<<args[1]>>, c.s, "r+")

\* C4: mv a b on a writable file leaves the file that cp a b followed by
\* rm a leaves from the same state.
C4_MvIsCpThenRm ==
    (mode = "r+" /\ status = "done" /\ line.verb = "mv" /\ Len(line.args) = 2)
        => f = CpThenRm(line.args, pre).s.f

\* C5: cd - exchanges the current and the previous group and never fails,
\* and two of them in a row give back both.
C5_CdDashSwaps ==
    /\ (Ran /\ line.verb = "cd" /\ line.args = Dash)
           => /\ status = "done"
              /\ group = pre.last_group
              /\ last_group = pre.group
              /\ out = <<>>
    /\ (status = "prompt")
           => LET once  == cd(Dash, Cur)
                  twice == cd(Dash, once.s)
              IN  ~once.raised /\ ~twice.raised /\ twice.s = Cur /\ twice.out = <<>>

\* C5 witness: a cd - between two different groups.
C5_Witness ==
    /\ status = "done" /\ line.verb = "cd" /\ line.args = Dash
    /\ pre.group # pre.last_group
    /\ pre.group.linked /\ pre.last_group.linked
    /\ group = pre.last_group

\* C6: cd to a dataset prints 'Not a group', cd to nothing prints 'No such
\* group', and both leave the current and the previous group as they were.
C6_CdFailureKeepsGroups ==
    (Ran /\ line.verb = "cd" /\ line.args # Dash
        /\ ~abspath_raises(pre.group, joinSpace(line.args)))
        => LET arg  == joinSpace(line.args)
               path == abspath(pre.f, pre.group, arg)
               kept == status = "done" /\ group = pre.group
                       /\ last_group = pre.last_group
           IN  /\ (contains(pre.f, path) /\ isDataset(pre.f, path))
                      => (out = <<Diag("cd", arg, "Not a group")>> /\ kept)
               /\ ~contains(pre.f, path)
                      => (out = <<Diag("cd", arg, "No such group")>> /\ kept)

\* C6 witness: a cd to a dataset from a session whose previous group is not
\* its current one.
C6_Witness ==
    /\ status = "done" /\ line.verb = "cd" /\ Len(line.args) = 1
    /\ out = <<Diag("cd", line.args[1], "Not a group")>>
    /\ pre.group # pre.last_group
    /\ group = pre.group /\ last_group = pre.last_group

\* C7: cd without an argument changes neither the current nor the previous
\* group.
C7_CdNoArgIsNoOp ==
    (status = "done" /\ line.verb = "cd" /\ line.args = <<>>)
        => (group = pre.group /\ last_group = pre.last_group)

\* C8: a command other than cd, whether it succeeds or prints a diagnostic,
\* leaves the current and the previous group as they were.
C8_OnlyCdMoves ==
    (status = "done"
        /\ line.verb \in {"pwd", "ls", "attrs", "cat", "mkdir", "rm", "cp", "mv", "help"})
        => (group = pre.group /\ last_group = pre.last_group)

\* C9: resolving the result of a resolution gives that result again.
C9_ResolveIdempotent ==
    /\ status = "done" => out[2] = out[1]
    /\ status = "resolved" => ~abspath_raises(group, out[1])

\* C9 witness: a relative input with '..' that resolved to a group.
C9_Witness ==
    /\ status = "done"
    /\ line.args[1] = <<".", ".", "/", "a">>
    /\ out = << <<"/", "a", "/">>, <<"/", "a", "/">> >>

\* C10: the resolved location ends with '/' exactly when it names an existing
\* group: never for a dataset or for nothing.
C10_SlashIffGroup ==
    (status \in {"resolved", "done"})
        => (endswith(out[1], "/") <=> (contains(f, out[1]) /\ isGroup(f, out[1])))

\* The link path a relative input leads to from the link path at, segment by
\* segment: nothing and '.' stay, '..' goes up and stays at the root, a name
\* goes down.
RECURSIVE walk(_, _)
walk(at, segs) ==
    IF segs = <<>> THEN at
    ELSE LET seg == Head(segs)
         IN  IF seg = <<>> \/ seg = <<".">> THEN walk(at, Tail(segs))
             ELSE IF seg = <<".", ".">>
                  THEN walk(IF at = Root THEN Root ELSE SubSeq(at, 1, Len(at) - 1),
                            Tail(segs))
             ELSE walk(Append(at, seg), Tail(segs))

\* C11: a relative input resolved against the location of the current group
\* drops '.', takes several '/' for one, goes up one segment for each '..'
\* and stays at the root for a '..' there; the result starts with '/' and
\* the resolution does not raise, however many '..' the input has.
C11_RelativeResolution ==
    (status # "prompt" /\ line.verb = "abspath" /\ group.linked
        /\ ~startswith(line.args[1], "/"))
        => /\ status \in {"resolved", "done"}
           /\ startswith(out[1], "/")
           /\ LET at    == walk(group.at, split(line.args[1]))
                  canon == SLASH \o join(at)
              IN  out[1] = canon \/ (at # Root /\ out[1] = canon \o SLASH)

\* C11 witness: more '..' than the current group is deep, with '.' and '//'
\* between them, and a name after them.
C11_Witness ==
    /\ status = "resolved"
    /\ group = Handle(<<B>>)
    /\ line.args[1] = <<".", "/", "/", ".", ".", "/", ".", ".", "/", "a">>
    /\ out = << <<"/", "a", "/">> >>

\* What the file t holds at the link path lp and under it, by the link paths
\* from lp.
Subtree(t, lp) ==
    [q \in {SubSeq(r, Len(lp) + 1, Len(r)) : r \in {x \in DOMAIN t : IsPrefix(lp, x)}}
        |-> t[lp \o q]]

\* The first argument of the line as resolved before the handler ran, and
\* the link path it names.
Source1 == abspath(pre.f, pre.group, line.args[1])

\* The final destination of the source at link path sp: under the last
\* argument by the last name of sp when the last argument named a group
\* before the handler ran, the last argument itself when it did not.
FinalOf(sp) ==
    LET dest == abspath(pre.f, pre.group, LastArg)
    IN  IF contains(pre.f, dest) /\ isGroup(pre.f, dest)
        THEN links(dest) \o (IF sp = Root THEN <<>> ELSE <<sp[Len(sp)]>>)
        ELSE links(dest)

\* cp or mv with a source and a destination on a writable file, from a
\* current group that has a location, the source naming an object under the
\* root.
OneSource(verb) ==
    /\ mode = "r+" /\ Ran /\ line.verb = verb /\ Len(line.args) = 2
    /\ pre.group.linked
    /\ contains(pre.f, Source1)
    /\ links(Source1) # Root

\* C12: cp of an existing source returns with a deep copy of what the source
\* held at the final destination: under dest by the name of the source when
\* dest is an existing group, at dest itself when it is not.
C12_CpPlacesCopy ==
    OneSource("cp")
        => /\ status = "done"
           /\ FinalOf(links(Source1)) \in DOMAIN f
           /\ Subtree(f, FinalOf(links(Source1))) = Subtree(pre.f, links(Source1))

\* C13: when cp or mv finds an object, dataset or group, at the final
\* destination, it returns having printed nothing, with the copy of what the
\* source held in the place of that object.
C13_OverwritesFinal ==
    \A verb \in {"cp", "mv"} :
        (OneSource(verb) /\ FinalOf(links(Source1)) \in DOMAIN pre.f)
            => /\ status = "done"
               /\ out = <<>>
               /\ FinalOf(links(Source1)) \in DOMAIN f
               /\ Subtree(f, FinalOf(links(Source1))) = Subtree(pre.f, links(Source1))

\* Argument i of the line as resolved before the handler ran.
ArgPath(i) == abspath(pre.f, pre.group, line.args[i])

\* Argument i names an object of the file the handler started on.
Existing(i) == contains(pre.f, ArgPath(i))

\* Argument i names nothing in the file the handler started on, at a place
\* where a group can be made: no dataset on the way to it.
New(i) == ~contains(pre.f, ArgPath(i)) /\ ~blocked(pre.f, links(ArgPath(i)))

\* mkdir on a writable file from a current group that has a location.
MkdirRan == mode = "r+" /\ Ran /\ line.verb = "mkdir" /\ pre.group.linked

\* C14: mkdir of a path that exists leaves the file as it was and prints one
\* diagnostic, for that path; mkdir of a list whose arguments are new paths,
\* in any order, repeated, or among paths that exist, returns with a group at
\* every new path and what the file held before untouched.
C14_MkdirEachArgument ==
    /\ (MkdirRan /\ Len(line.args) = 1 /\ Existing(1))
           => /\ status = "done"
              /\ f = pre.f
              /\ out = <<Diag("mkdir", line.args[1], "Groups exists")>>
    /\ (MkdirRan /\ \A i \in 1..Len(line.args) : Existing(i) \/ New(i))
           => /\ status = "done"
              /\ \A i \in 1..Len(line.args) :
                     New(i) => /\ links(ArgPath(i)) \in DOMAIN f
                               /\ f[links(ArgPath(i))].kind = "group"
              /\ \A q \in DOMAIN pre.f : q \in DOMAIN f /\ f[q] = pre.f[q]

\* C14 witness: a new path, a path that exists, then another new path.
C14_Witness ==
    /\ MkdirRan /\ status = "done" /\ Len(line.args) = 3
    /\ New(1) /\ Existing(2) /\ New(3)
    /\ links(ArgPath(1)) # links(ArgPath(3))
    /\ out = <<Diag("mkdir", line.args[2], "Groups exists")>>
    /\ Size(f) = Size(pre.f) + 2

\* rm on a writable file from a current group that has a location, no
\* argument naming the root.
RmRan ==
    /\ mode = "r+" /\ Ran /\ line.verb = "rm" /\ pre.group.linked
    /\ \A i \in 1..Len(line.args) : links(ArgPath(i)) # Root

\* Argument i names nothing when its turn comes: nothing in the file the
\* handler started on, or something an argument before it took away.
Missing(i) ==
    \/ ~Existing(i)
    \/ \E j \in 1..(i - 1) :
           Existing(j) /\ IsPrefix(links(ArgPath(j)), links(ArgPath(i)))

\* C15: rm takes its arguments one by one: each that names nothing gets the
\* diagnostic 'No such group or dataset' and changes nothing, each that names
\* an object takes it away with all that is under it, and rm returns after
\* the last one, whatever was missing before it.
C15_RmEachArgument ==
    RmRan
        => LET n       == Len(line.args)
               missing == SelectSeq([i \in 1..n |-> i], Missing)
           IN  /\ status = "done"
               /\ out = [k \in 1..Len(missing) |->
                            Diag("rm", line.args[missing[k]], "No such group or dataset")]
               /\ \A q \in DOMAIN pre.f :
                      IF \E i \in 1..n : Existing(i) /\ IsPrefix(links(ArgPath(i)), q)
                      THEN q \notin DOMAIN f
                      ELSE q \in DOMAIN f /\ f[q] = pre.f[q]
               /\ DOMAIN f \subseteq DOMAIN pre.f

\* cp or mv with two sources on a writable file, from a current group that
\* has a location, the last argument naming a group.
TwoSources ==
    /\ mode = "r+" /\ Ran /\ line.verb \in {"cp", "mv"} /\ Len(line.args) = 3
    /\ pre.group.linked
    /\ ~DestNotGroup

\* What the handler of the line gives for source i alone.
Alone(i) ==
    IF line.verb = "cp" THEN cp(<<line.args[i], LastArg>>, pre, "r+")
    ELSE mv(<<line.args[i], LastArg>>, pre, "r+")

\* C16: cp and mv of two sources into an existing group, one source naming
\* nothing and the other naming an object that the command copies (and, for
\* mv, removes) when given it alone: the command returns, one diagnostic 'No
\* such group or dataset' is printed, and the file is left as the command
\* leaves it for the other source alone.
C16_MissingSourceSkipped ==
    \A i \in 1..2 :
        (TwoSources /\ ~Existing(i) /\ Existing(3 - i) /\ ~Alone(3 - i).raised)
            => /\ status = "done"
               /\ f = Alone(3 - i).s.f
               /\ Len(out) = 1
               /\ out[1].verb = line.verb /\ out[1].msg = "No such group or dataset"

\* C17: cp and mv of two sources into an existing group, one source naming
\* nothing and the other naming an object: every diagnostic 'No such group
\* or dataset' printed names the verb and the source that names nothing,
\* be it the first or the second.
C17_DiagnosticNamesMissing ==
    \A i \in 1..2 :
        (TwoSources /\ ~Existing(i) /\ Existing(3 - i))
            => \A k \in 1..Len(out) :
                   out[k].msg = "No such group or dataset"
                       => out[k] = Diag(line.verb, line.args[i], "No such group or dataset")

\* C18: ls of a path that names no existing group, a dataset or nothing,
\* returns after printing one diagnostic for that path and lists nothing.
C18_LsReportsNoGroup ==
    (Ran /\ line.verb = "ls" /\ pre.group.linked
        /\ LET path == abspath(pre.f, pre.group, joinSpace(line.args))
           IN  ~(contains(pre.f, path) /\ isGroup(pre.f, path)))
        => /\ status = "done"
           /\ Len(out) = 1
           /\ out[1].verb = "ls" /\ out[1].arg = joinSpace(line.args)
           /\ out[1].msg # "print"

\* C19: help of a word that is no verb returns after printing the diagnostic
\* 'is not a valid command' for that word, and nothing else.
C19_HelpUnknownVerb ==
    (Ran /\ line.verb = "help" /\ Len(line.args) = 1
        /\ line.args[1] \notin HELP_MESSAGES)
        => /\ status = "done"
           /\ out = <<Diag("help", line.args[1], "is not a valid command")>>

\* C20: cp and mv with no argument or one on a writable file return after
\* printing the diagnostic 'missing destination operand' and leave the file
\* as it was.
C20_MissingDestination ==
    (mode = "r+" /\ Ran /\ line.verb \in {"cp", "mv"} /\ Len(line.args) < 2)
        => /\ status = "done"
           /\ f = pre.f
           /\ Len(out) = 1
           /\ out[1].verb = line.verb /\ out[1].msg = "missing destination operand"

\* The name an entry of a listing shows: the markup of a group is not text.
Shown(v) ==
    IF v.dtype = "group"
    THEN SubSeq(v.name, Len(MarkupOpen) + 1, Len(v.name) - Len(MarkupClose))
    ELSE v.name

\* C21: the listing ls prints for a group has '.', '..' and one entry for
\* each child of the group, in the order of the names shown, with no regard
\* to which entries are groups and which are datasets.
C21_LsSortedByShownName ==
    (status = "done" /\ line.verb = "ls" /\ Len(out) = 1 /\ out[1].msg = "print")
        => LET vals == out[1].arg
               lp   == links(abspath(pre.f, pre.group, joinSpace(line.args)))
           IN  /\ {Shown(vals[k]) : k \in 1..Len(vals)}
                      = {<<".">>, <<".", ".">>}
                            \cup {q[Len(q)] : q \in {r \in DOMAIN pre.f :
                                      Len(r) = Len(lp) + 1 /\ IsPrefix(lp, r)}}
               /\ Len(vals) = Cardinality({Shown(vals[k]) : k \in 1..Len(vals)})
               /\ \A k \in 1..(Len(vals) - 1) :
                      strLess(Shown(vals[k]), Shown(vals[k + 1]))

\* C22: pwd prints the location of the current group as abspath resolves
\* it, which ends with '/'.
C22_PwdPrintsResolved ==
    (Ran /\ line.verb = "pwd" /\ pre.group.linked)
        => /\ status = "done"
           /\ out = <<Diag("pwd", abspath(pre.f, pre.group, name(pre.group)), "print")>>
           /\ endswith(out[1].arg, "/")

\* C23: a line whose first word, its alias taken, names no handler prints
\* '<word>: command not found' and nothing else, runs no handler, leaves the
\* file and the session as they were, and the loop goes on: for every such
\* word, the other names of the module commands among them.
C23_UnknownVerbNotFound ==
    (Ran /\ aliasOf(line.verb) \notin Handlers)
        => /\ status = "done"
           /\ out = <<Diag(aliasOf(line.verb), <<>>, "command not found")>>
           /\ Cur = pre

\* Tab was pressed on a line whose first word is complete: on a later word,
\* or after the space that follows the first.
PathCompleted ==
    /\ line.verb = "complete" /\ status # "prompt"
    /\ Len(line.args) >= 1
    /\ ~(Len(line.args) = 1 /\ line.word # <<>>)

\* C24: what is offered for a path depends on the first word of the line:
\* after cd and ls the candidates of the word that are groups, and only
\* them; after exit, help and pwd nothing; after any other word all the
\* candidates of the word, groups and datasets.
C24_CompletionByVerb ==
    PathCompleted
        => LET cmd == line.args[1]
               any == completions(f, group, line.word, "any")
           IN  /\ cmd \in {CD, LS}
                      => /\ (status = "raised") = any.raised
                         /\ out[1] = {c \in any.items : endswith(c, "/")}
                         /\ \A c \in out[1] :
                                LET p == abspath(f, group, c)
                                IN  contains(f, p) /\ isGroup(f, p)
               /\ cmd \in {EXIT, HELP, PWD}
                      => (status = "done" /\ out[1] = {})
               /\ cmd \notin {CD, LS, EXIT, HELP, PWD}
                      => /\ (status = "raised") = any.raised
                         /\ out[1] = any.items

\* C24 witness: ls on a word that has a group and a dataset for candidates;
\* the group alone is offered.
C24_Witness ==
    /\ PathCompleted /\ status = "done"
    /\ line.args[1] = LS
    /\ out[1] # {}
    /\ \E c \in completions(f, group, line.word, "any").items : ~endswith(c, "/")
    /\ \A c \in out[1] : endswith(c, "/")

\* The directory portion of a token as typed, up to its last '/', and the
\* link path of the group it names from the current group.
DirPortion(tok) == SubSeq(tok, 1, rfind(tok, Len(tok)))

DirLinks(tok) ==
    IF DirPortion(tok) = <<>> THEN group.at
    ELSE links(abspath(f, group, DirPortion(tok)))

\* The children of the group the directory portion names whose names start
\* with the base-name portion, each after the directory portion as typed and
\* with '/' after a group; kinds is the kinds the verb lets through.
Candidates(tok, kinds) ==
    IF DirLinks(tok) \notin DOMAIN f \/ f[DirLinks(tok)].kind # "group" THEN {}
    ELSE { DirPortion(tok) \o q[Len(q)] \o (IF f[q].kind = "group" THEN SLASH ELSE <<>>) :
             q \in {r \in values(f, DirLinks(tok)) :
                       f[r].kind \in kinds /\ IsPrefix(basename(tok), r[Len(r)])} }

\* No two '/' in a row in s.
NoDoubleSlash(s) == \A i \in 1..(Len(s) - 1) : ~(s[i] = "/" /\ s[i + 1] = "/")

\* C25: for a token, what is offered is exactly the children of the group
\* its directory portion names whose names start with its base-name portion,
\* each after the directory portion as typed and with '/' after a group;
\* so it is too for a token that is the whole name of a group.
C25_CandidatesOfToken ==
    (PathCompleted /\ group.linked /\ line.args[1] \notin {EXIT, HELP, PWD}
        /\ NoDoubleSlash(line.word)
        /\ basename(line.word) \notin {<<".">>, <<".", ".">>})
        => out[1] = Candidates(line.word,
                               IF line.args[1] \in {CD, LS} THEN {"group"}
                               ELSE {"group", "dataset"})

\* C26: nothing offered for a path has two '/' in a row, whatever the
\* token: '/', a token that ends with '/', one that starts with several.
C26_NoDoubleSlashOffered ==
    (PathCompleted /\ group.linked) => \A c \in out[1] : NoDoubleSlash(c)

\* C27: the print threshold of numpy is at its default at every prompt and
\* after every cat that returns: cat -f puts it back on each of its ways
\* out, the last argument naming a dataset, a group or nothing, and cat
\* without -f leaves it alone.
C27_ThresholdRestored ==
    /\ (status \in {"prompt", "done"}) => threshold = DefaultThreshold
    /\ (status = "done" /\ line.verb = "cat") => pre.threshold = DefaultThreshold

\* C27 witness: cat -f has printed a dataset in full and returned.
C27_Witness ==
    /\ status = "done" /\ line.verb = "cat"
    /\ Len(line.args) = 2 /\ line.args[1] = <<"-", "f">>
    /\ Len(out) = 1 /\ out[1].msg = "print"
    /\ threshold = DefaultThreshold

\* C28: cp leaves its source as it was: after cp of a source that names an
\* object, to a final destination that is not under the source, the source
\* is still in the file and holds what it held, the final destination being
\* the source itself included.
C28_CpKeepsSource ==
    (OneSource("cp")
        /\ ~(/\ IsPrefix(links(Source1), FinalOf(links(Source1)))
             /\ FinalOf(links(Source1)) # links(Source1)))
        => /\ links(Source1) \in DOMAIN f
           /\ Subtree(f, links(Source1)) = Subtree(pre.f, links(Source1))

\* Source i of the line names an object under the root that no earlier
\* source of the line has touched: the first source, or the second when the
\* first names nothing.
Untouched(i) ==
    /\ Existing(i) /\ links(ArgPath(i)) # Root
    /\ (i = 2 => ~Existing(1))

\* C29: mv of two sources into an existing group ends with the destination
\* still an existing group, and with every source that named an object when
\* its turn came a direct child of the destination under its last name, the
\* destination or a group above it being among the sources included.
C29_MvManyIntoDest ==
    (TwoSources /\ line.verb = "mv")
        => LET d == links(ArgPath(3))
           IN  /\ d \in DOMAIN f /\ f[d].kind = "group"
               /\ \A i \in 1..2 :
                      Untouched(i)
                          => (d \o <<links(ArgPath(i))[Len(links(ArgPath(i)))]>>) \in DOMAIN f

====
